---- MODULE Spec2Model ----
(***************************************************************************)
(* Post-auction event matcher (rtbkit/core/post_auction/event_matcher.cc). *)
(* The matcher keeps two pending tables, submitted and finished, keyed by  *)
(* (auctionId, adSpotId), and drives the banker and the outcome sinks.     *)
(* Every handler is a pure operator over the matcher record                *)
(*   [submitted, finished, banker, sink]                                   *)
(* returning [m |-> matcher after the call, exc |-> whether it threw].     *)
(***************************************************************************)
EXTENDS Integers, Sequences, FiniteSets, TLC

VARIABLES
    now,        \* Date::now(), in seconds
    submitted,  \* PendingList<pair<Id,Id>, SubmissionInfo>
    finished,   \* PendingList<pair<Id,Id>, FinishedInfo>
    banker,     \* the banker calls made by the last operation, in order
    sink,       \* the outcomes delivered to the sinks by the last operation
    lastOp,     \* the last operation and its input
    hist,       \* per key: banker calls and outcomes counted since construction
    nEvents,    \* operations ingested so far (doAuction and doEvent)
    nTicks,     \* clock advances so far
    alt         \* a second matcher given the same inputs in another order

vars == <<now, submitted, finished, banker, sink, lastOp, hist, nEvents, nTicks, alt>>

----------------------------------------------------------------------------
(* Bounds of the model *)

MaxEvents == 3
MaxTicks == 2
MaxSpotEvents == 3
MaxSpotTicks == 1
MaxCampaignEvents == 6
MaxCampaignTicks == 1
MaxReorderRounds == 2
MaxReorderTicks == 1
MaxReplayRounds == 1
MaxReplayEvents == 2
MaxReplayTicks == 1
MaxEarlyEvents == 3
MaxEarlyTicks == 1
MaxIsolateEvents == 3
MaxIsolateTicks == 1
MaxSweepEvents == 3
MaxSweepTicks == 1
MaxBidResultEvents == 3
MaxBidResultTicks == 1
MaxRaceTicks == 3
MaxTraceEvents == 4
MaxTraceTicks == 1

----------------------------------------------------------------------------
(* Identifiers, accounts, timeouts *)

NullId == 0
Auctions == {"A1"}
AdSpotIds == {1, 2}
Keys == Auctions \X (AdSpotIds \cup {NullId})
NoKey == <<"", NullId>>

NoAccount == <<>>
Account == <<"campaign", "strategy">>

lossTimeout == 15
winTimeout == 3600
auctionTimeout == 10800

Labels == {"IMPRESSION", "CLICK"}
Metas == {"m1", "m2"}
WinPrices == {80, 120}
TickSteps == {lossTimeout, auctionTimeout}

NullRequest == <<>>
BidRequests == {<<1, 2>>, <<2>>}

Responses ==
    { [agent |-> "agent", account |-> Account, maxPrice |-> 100, priority |-> 0, wcm |-> "none"],
      [agent |-> "agent", account |-> Account, maxPrice |-> 0, priority |-> 0, wcm |-> "none"],
      [agent |-> "agent", account |-> NoAccount, maxPrice |-> 100, priority |-> 0, wcm |-> "none"],
      [agent |-> "agent", account |-> Account, maxPrice |-> 100, priority |-> 0, wcm |-> "throws"] }

NoResponse == [agent |-> "", account |-> NoAccount, maxPrice |-> 0, priority |-> 0, wcm |-> "none"]

----------------------------------------------------------------------------
(* Pending tables *)

EmptyTable == [k \in {} |-> 0]

TableInsert(tbl, key, value, timeout) ==
    [k \in (DOMAIN tbl) \cup {key} |->
        IF k = key THEN [value |-> value, timeout |-> timeout] ELSE tbl[k]]

TablePop(tbl, key) == [k \in (DOMAIN tbl) \ {key} |-> tbl[k]]

TableUpdate(tbl, key, value) == [tbl EXCEPT ![key].value = value]

completePrefix(tbl, auctionId) ==
    LET cands == {k \in DOMAIN tbl : k[1] = auctionId}
    IN  IF cands = {} THEN NoKey
        ELSE CHOOSE k \in cands : \A j \in cands : k[2] <= j[2]

findAuction(tbl, auctionId, adSpotId) ==
    LET key2 == completePrefix(tbl, auctionId)
        key == IF adSpotId = NullId /\ key2[1] = auctionId THEN key2
               ELSE <<auctionId, adSpotId>>
    IN  IF adSpotId = NullId /\ key2[1] # auctionId
        THEN [found |-> FALSE, adSpotId |-> adSpotId]
        ELSE IF key \notin DOMAIN tbl
             THEN [found |-> FALSE, adSpotId |-> key[2]]
             ELSE [found |-> TRUE, adSpotId |-> key[2]]

makeBidId(auctionId, spotId, agent) == <<auctionId, spotId, agent>>

----------------------------------------------------------------------------
(* Matcher record, banker calls, outcomes *)

Matcher(sub, fin) == [submitted |-> sub, finished |-> fin, banker |-> <<>>, sink |-> <<>>]

Return(M) == [m |-> M, exc |-> FALSE]
Throw(M) == [m |-> M, exc |-> TRUE]

BankerCall(M, op, account, bidId, amount, key) ==
    [M EXCEPT !.banker = Append(@,
        [op |-> op, account |-> account, bidId |-> bidId, amount |-> amount, key |-> key])]

Emit(M, outcome) == [M EXCEPT !.sink = Append(@, outcome)]

NoBidId == <<"", NullId, "">>

EmptySubmission ==
    [bidRequest |-> NullRequest, bid |-> NoResponse,
     earlyWinEvents |-> <<>>, earlyCampaignEvents |-> <<>>]

----------------------------------------------------------------------------
(* Collaborators whose code lies outside event_matcher.cc *)

\* BidRequest::findAdSpotIndex: the 0-based position of the spot, -1 if absent
findAdSpotIndex(bidRequest, adSpotId) ==
    IF \E i \in 1..Len(bidRequest) : bidRequest[i] = adSpotId
    THEN (CHOOSE i \in 1..Len(bidRequest) : bidRequest[i] = adSpotId) - 1
    ELSE -1

\* WinCostModel::evaluate: the default model charges the win price
WcmEvaluate(response, winPrice) == winPrice

\* FinishedInfo::hasWin: setWin has recorded a win/loss time
hasWin(info) == info.winTime # -1

\* FinishedInfo::forceWin
forceWin(info, timestamp, winPrice, meta) ==
    [info EXCEPT !.reportedStatus = "WIN", !.winTime = timestamp,
                 !.winPrice = winPrice, !.winMeta = meta]

\* CampaignEvents::hasEvent / setEvent
hasEvent(campaignEvents, label) == label \in DOMAIN campaignEvents

setEvent(campaignEvents, label, timestamp, meta) ==
    [l \in (DOMAIN campaignEvents) \cup {label} |->
        IF l = label THEN [timestamp |-> timestamp, meta |-> meta]
        ELSE campaignEvents[l]]

----------------------------------------------------------------------------
(* doBidResult, event_matcher.cc:468-578 *)

\* the retention periods of wins and losses exchanged
expiryIntervalSwapped(status) == IF status = "LOSS" THEN winTimeout ELSE auctionTimeout

expiryInterval(status) == IF status = "LOSS" THEN auctionTimeout ELSE winTimeout

\* the account check dropped
accountAlwaysValid(account) == FALSE

\* line 503: account.size() == 0
invalidAccount(account) == Len(account) = 0

isNoBid(response) == response.maxPrice = 0 /\ response.priority = 0

\* the release is never disarmed
guardNeverCleared(status) == TRUE

\* line 542: guard.clear() runs on the WIN path only
guardArmedAtExit(status) == status # "WIN"

\* the release does nothing at scope exit
guardNeverFires(M, armed, account, bidId, key) == M

\* the Call_Guard of line 515 when it is still armed at scope exit
guardFires(M, armed, account, bidId, key) ==
    IF armed THEN BankerCall(M, "cancelBid", account, bidId, 0, key) ELSE M

makeFinishedInfo(auctionId, adSpotId, adspot_num, submission, status, timestamp, price, winPrice, winLossMeta) ==
    [auctionId |-> auctionId, adSpotId |-> adSpotId, spotIndex |-> adspot_num,
     bidRequest |-> submission.bidRequest, bid |-> submission.bid,
     reportedStatus |-> status, winTime |-> timestamp, price |-> price,
     winPrice |-> winPrice, winMeta |-> winLossMeta,
     campaignEvents |-> EmptyTable]

matchedWinLoss(type, confidence, info) ==
    [kind |-> "MatchedWinLoss", type |-> type, confidence |-> confidence,
     info |-> info]

\* dup: the keys for which PendingList::insert of an existing key throws
\* (for the others it replaces the entry)
doBidResult(M, t, auctionId, adSpotId, submission, winPrice, timestamp, status, confidence, winLossMeta, dup) ==
    LET key == <<auctionId, adSpotId>>
        response == submission.bid
        account == response.account
        adspot_num == findAdSpotIndex(submission.bidRequest, adSpotId)
        bidId == makeBidId(auctionId, adSpotId, response.agent)
    IN  IF adSpotId = NullId THEN Throw(M)
        ELSE IF invalidAccount(account) THEN Throw(M)
        ELSE IF isNoBid(response)
             THEN Throw(guardFires(M, TRUE, account, bidId, key))
        ELSE IF status = "WIN" /\ response.wcm = "throws"
             THEN Throw(guardFires(M, TRUE, account, bidId, key))
        ELSE
            LET price == IF status = "WIN" THEN WcmEvaluate(response, winPrice)
                         ELSE winPrice
                armed == guardArmedAtExit(status)
                M1 == IF status = "WIN"
                      THEN BankerCall(M, "winBid", account, bidId, price, key)
                      ELSE M
                i == makeFinishedInfo(auctionId, adSpotId, adspot_num, submission,
                                      status, timestamp, price, winPrice, winLossMeta)
                M2 == Emit(M1, matchedWinLoss(IF status = "WIN" THEN "Win" ELSE "Loss",
                                              confidence, i))
                expiryTime == t + expiryInterval(status)
            IN  IF key \in DOMAIN M2.finished /\ key \in dup
                THEN Throw(guardFires(M2, armed, account, bidId, key))
                ELSE Return(guardFires(
                        [M2 EXCEPT !.finished = TableInsert(@, key, i, expiryTime)],
                        armed, account, bidId, key))

----------------------------------------------------------------------------
(* doCampaignEvent, event_matcher.cc:372-465 *)

unmatchedEvent(why, event) ==
    [kind |-> "UnmatchedEvent", reason |-> why, event |-> event]

matchedCampaignEvent(label, info) ==
    [kind |-> "MatchedCampaignEvent", label |-> label, info |-> info]

\* the event put in front of the buffered ones
push_front(events, event) == <<event>> \o events

\* line 409: earlyCampaignEvents.push_back(event)
push_back(events, event) == Append(events, event)

doCampaignEvent(M, t, event) ==
    LET inSub == findAuction(M.submitted, event.auctionId, event.adSpotId)
        inFin == findAuction(M.finished, event.auctionId, event.adSpotId)
    IN  IF event.type # "CAMPAIGN_EVENT" THEN Throw(M)
        ELSE IF inSub.found THEN
            LET key == <<event.auctionId, inSub.adSpotId>>
                submissionInfo == M.submitted[key].value
                M1 == Emit(M, unmatchedEvent("inFlight", event))
            IN  Return([M1 EXCEPT !.submitted = TableUpdate(@, key,
                    [submissionInfo EXCEPT !.earlyCampaignEvents = push_back(@, event)])])
        ELSE IF inFin.found THEN
            LET key == <<event.auctionId, inFin.adSpotId>>
                finishedInfo == M.finished[key].value
            IN  IF hasEvent(finishedInfo.campaignEvents, event.label)
                THEN Return(Emit(M, unmatchedEvent("duplicate", event)))
                ELSE IF key[2] = NullId THEN Throw(M)
                ELSE
                    LET info2 == [finishedInfo EXCEPT !.campaignEvents =
                                    setEvent(@, event.label, event.timestamp, event.metadata)]
                    IN  Return(Emit([M EXCEPT !.finished = TableUpdate(@, key, info2)],
                                    matchedCampaignEvent(event.label, info2)))
        ELSE Return(Emit(M, unmatchedEvent("auctionNotFound", event)))

RECURSIVE replayCampaignEvents(_, _, _)
\* std::for_each over earlyCampaignEvents, event_matcher.cc:365-368
replayCampaignEvents(M, t, events) ==
    IF events = <<>> THEN Return(M)
    ELSE LET r == doCampaignEvent(M, t, Head(events))
         IN  IF r.exc THEN r ELSE replayCampaignEvents(r.m, t, Tail(events))

----------------------------------------------------------------------------
(* doWinLoss, event_matcher.cc:202-369 *)

eventStatus(event) == IF event.type = "WIN" THEN "WIN" ELSE "LOSS"

\* getTimeGapMs, line 234
getTimeGapMs(t, bidTimestamp) == 1000 * (t - bidTimestamp)

\* the status comparison inverted
isDuplicateInverted(info, status) == hasWin(info) /\ status # info.reportedStatus

\* line 254: the event repeats the status already recorded
isDuplicate(info, status) == hasWin(info) /\ status = info.reportedStatus

\* the gap in milliseconds compared with the timeout in seconds
submissionExpectedInSeconds(t, event) == getTimeGapMs(t, event.bidTimestamp) < lossTimeout

\* line 311: the submission is still expected
submissionExpected(t, event) == getTimeGapMs(t, event.bidTimestamp) < lossTimeout * 1000

winLossConfidence(status) == IF status = "WIN" THEN "Guaranteed" ELSE "Inferred"

\* the late win charged to the account named by the event
lateWinAccountFromEvent(info, event) == event.account

\* line 274: a late win is charged to the account of the finished bid
lateWinAccount(info, event) == info.bid.account

\* lines 249-295: the auction is in finished
doWinLossFinished(M, t, event) ==
    LET key == <<event.auctionId, event.adSpotId>>
        info == M.finished[key].value
    IN  IF isDuplicate(info, eventStatus(event)) THEN M
        ELSE IF event.type = "WIN" THEN
            LET M1 == BankerCall(M, "forceWinBid", lateWinAccount(info, event), NoBidId,
                                 event.winPrice, key)
                info2 == forceWin(info, event.timestamp, event.winPrice, event.metadata)
                M2 == [M1 EXCEPT !.finished = TableUpdate(@, key, info2)]
            IN  Emit(M2, matchedWinLoss("LateWin", "Guaranteed", info2))
        ELSE M

\* the placeholder expiring at once
placeholderExpiryNow(t) == t

\* lines 319 and 351: Date::now().plusSeconds(lossTimeout)
placeholderExpiry(t) == t + lossTimeout

\* the account test dropped
reconcilesAlways(event) == TRUE

\* line 339: !account.empty()
reconciles(event) == Len(event.account) # 0

\* lines 309-344: the auction is neither finished nor submitted
doWinLossUnknown(M, t, event) ==
    LET key == <<event.auctionId, event.adSpotId>>
    IN  IF submissionExpected(t, event)
        THEN [M EXCEPT !.submitted = TableInsert(@, key,
                [EmptySubmission EXCEPT !.earlyWinEvents = <<event>>],
                placeholderExpiry(t))]
        ELSE IF reconciles(event)
             THEN BankerCall(M, "forceWinBid", event.account, NoBidId,
                             event.winPrice, key)
             ELSE M

\* every popped entry taken for a submission
neverAwaitsSubmission(info) == FALSE

\* line 347: !info.bidRequest
awaitsSubmission(info) == info.bidRequest = NullRequest

\* nothing replayed
noEarlyCampaignEvents(info) == <<>>

\* lines 365-367: info.earlyCampaignEvents.begin() to end()
earlyCampaignEventsOf(info) == info.earlyCampaignEvents

doWinLoss(M, t, event, isReplay, dup) ==
    LET key == <<event.auctionId, event.adSpotId>>
        status == eventStatus(event)
    IN  IF key \in DOMAIN M.finished THEN Return(doWinLossFinished(M, t, event))
        ELSE IF key \notin DOMAIN M.submitted THEN Return(doWinLossUnknown(M, t, event))
        ELSE
            LET info == M.submitted[key].value
                M1 == [M EXCEPT !.submitted = TablePop(@, key)]
            IN  IF awaitsSubmission(info)
                THEN Return([M1 EXCEPT !.submitted = TableInsert(@, key,
                        [info EXCEPT !.earlyWinEvents = Append(@, event)],
                        placeholderExpiry(t))])
                ELSE
                    LET r == doBidResult(M1, t, event.auctionId, event.adSpotId, info,
                                         event.winPrice, event.timestamp, status,
                                         winLossConfidence(status), event.metadata, dup)
                    IN  IF r.exc THEN r
                        ELSE replayCampaignEvents(r.m, t, earlyCampaignEventsOf(info))

----------------------------------------------------------------------------
(* doAuction, event_matcher.cc:152-200 *)

RECURSIVE replayEarlyWinEvents(_, _, _, _)
\* lines 189-194; an exception leaves the loop (caught at line 196)
replayEarlyWinEvents(M, t, events, dup) ==
    IF events = <<>> THEN M
    ELSE LET r == doWinLoss(M, t, Head(events), TRUE, dup)
         IN  IF r.exc THEN r.m ELSE replayEarlyWinEvents(r.m, t, Tail(events), dup)

\* the early win events replayed before the bid is attached
doAuctionAttachLast(M, t, event, dup) ==
    LET key == <<event.auctionId, event.adSpotId>>
        known == key \in DOMAIN M.submitted
        old == IF known THEN M.submitted[key].value ELSE EmptySubmission
        submission == [old EXCEPT !.earlyWinEvents = <<>>,
                                  !.bidRequest = event.bidRequest,
                                  !.bid = event.bidResponse]
        M1 == [M EXCEPT !.submitted =
                  TableInsert(TablePop(@, key), key, submission, event.lossTimeout)]
        M2 == replayEarlyWinEvents(M1, t, old.earlyWinEvents, dup)
    IN  BankerCall(M2, "attachBid", event.bidResponse.account,
                   makeBidId(event.auctionId, event.adSpotId, event.bidResponse.agent),
                   event.bidResponse.maxPrice, key)

doAuction(M, t, event, dup) ==
    LET key == <<event.auctionId, event.adSpotId>>
        known == key \in DOMAIN M.submitted
        old == IF known THEN M.submitted[key].value ELSE EmptySubmission
        earlyWinEvents == old.earlyWinEvents
        submission == [old EXCEPT !.earlyWinEvents = <<>>,
                                  !.bidRequest = event.bidRequest,
                                  !.bid = event.bidResponse]
        M1 == [M EXCEPT !.submitted =
                  TableInsert(TablePop(@, key), key, submission, event.lossTimeout)]
        M2 == BankerCall(M1, "attachBid", event.bidResponse.account,
                         makeBidId(event.auctionId, event.adSpotId, event.bidResponse.agent),
                         event.bidResponse.maxPrice, key)
    IN  replayEarlyWinEvents(M2, t, earlyWinEvents, dup)

----------------------------------------------------------------------------
(* doEvent, event_matcher.cc:128-149 *)

\* the default case falling into the win/loss case
dispatchWithoutDefault(M, t, event, dup) ==
    IF event.type = "CAMPAIGN_EVENT" THEN doCampaignEvent(M, t, event)
    ELSE doWinLoss(M, t, event, FALSE, dup)

\* lines 133-143: the switch on the event type
dispatch(M, t, event, dup) ==
    IF event.type \in {"WIN", "LOSS"} THEN doWinLoss(M, t, event, FALSE, dup)
    ELSE IF event.type = "CAMPAIGN_EVENT" THEN doCampaignEvent(M, t, event)
    ELSE Throw(M)

\* lines 132 and 145-148: whatever the handler throws is caught and logged
doEvent(M, t, event, dup) == dispatch(M, t, event, dup).m

----------------------------------------------------------------------------
(* checkExpiredAuctions, event_matcher.cc:69-124 *)

\* PendingList::expire visits the entries in non-decreasing expiry order
nextExpired(tbl, keys) ==
    CHOOSE k \in keys : \A j \in keys :
        \/ tbl[k].timeout < tbl[j].timeout
        \/ tbl[k].timeout = tbl[j].timeout /\ k[2] <= j[2]

\* the expired submission dropped without an inferred loss
onExpiredSubmittedDropped(M, t, key, info, dup) == M

\* lines 80-104
onExpiredSubmitted(M, t, key, info, dup) ==
    IF info.bidRequest = NullRequest THEN M
    ELSE doBidResult(M, t, key[1], key[2], info, 0, t, "LOSS", "Inferred", "null", dup).m

RECURSIVE expireSubmitted(_, _, _, _)
expireSubmitted(M, t, keys, dup) ==
    IF keys = {} THEN M
    ELSE LET k == nextExpired(M.submitted, keys)
             M1 == onExpiredSubmitted(M, t, k, M.submitted[k].value, dup)
         IN  expireSubmitted([M1 EXCEPT !.submitted = TablePop(@, k)], t, keys \ {k}, dup)

expired(tbl, t) == {k \in DOMAIN tbl : tbl[k].timeout <= t}

\* the finished entries are never expired
keepFinished(M, t) == M

\* lines 113-120: onExpiredFinished returns at once
expireFinished(M, t) ==
    [M EXCEPT !.finished = [k \in (DOMAIN @) \ expired(@, t) |-> @[k]]]

checkExpiredAuctions(M, t, dup) ==
    LET M1 == expireSubmitted(M, t, expired(M.submitted, t), dup)
        M2 == expireFinished(M1, t)
    IN  BankerCall(M2, "logBidEvents", NoAccount, NoBidId, 0, NoKey)

----------------------------------------------------------------------------
(* Inputs *)

submittedAuctionEvent(auctionId, adSpotId, lossTimeoutDate, bidRequest, bidResponse) ==
    [auctionId |-> auctionId, adSpotId |-> adSpotId, lossTimeout |-> lossTimeoutDate,
     bidRequest |-> bidRequest, bidResponse |-> bidResponse]

postAuctionEvent(type, auctionId, adSpotId, label, winPrice, timestamp, bidTimestamp, metadata, account) ==
    [type |-> type, auctionId |-> auctionId, adSpotId |-> adSpotId, label |-> label,
     winPrice |-> winPrice, timestamp |-> timestamp, bidTimestamp |-> bidTimestamp,
     metadata |-> metadata, account |-> account]

NormalResponse == CHOOSE r \in Responses : ~isNoBid(r) /\ r.account # NoAccount /\ r.wcm = "none"

\* submissions of every response for the request holding the spot, and of the
\* normal response for a request that lacks spot 1
SubmittedAuctionEvents(t, spots) ==
    { submittedAuctionEvent(a, s, t + lossTimeout, <<1, 2>>, r) :
        a \in Auctions, s \in spots, r \in Responses }
    \cup
    { submittedAuctionEvent(a, s, t + lossTimeout, <<2>>, NormalResponse) :
        a \in Auctions, s \in spots }

\* win/loss notifications: in time or late (bidTimestamp), with or without account
WinLossEvents(t, spots) ==
    { postAuctionEvent(type, a, s, "", 80, t, b[1], "meta", b[2]) :
        type \in {"WIN", "LOSS"}, a \in Auctions, s \in spots,
        b \in {<<t, Account>>, <<t - lossTimeout, Account>>, <<t - lossTimeout, NoAccount>>} }
    \cup
    { postAuctionEvent("WIN", a, s, "", p, t, t, "meta", Account) :
        a \in Auctions, s \in spots, p \in WinPrices }

CampaignEvents(t, spots) ==
    { postAuctionEvent("CAMPAIGN_EVENT", a, s, l, 0, t, t, m, NoAccount) :
        a \in Auctions, s \in spots, l \in Labels, m \in Metas }

OtherEvents(t) ==
    { postAuctionEvent("OTHER", a, NullId, "", 0, t, t, "meta", NoAccount) : a \in Auctions }

----------------------------------------------------------------------------
(* The matcher as a state machine *)

Cur == Matcher(submitted, finished)

\* the keys for which an insert into finished can meet an existing entry
Clashes == SUBSET ((DOMAIN submitted) \cap (DOMAIN finished))

NoEvent == [type |-> "none"]

RECURSIVE ReservedAfter(_, _)
\* per key: the reservations (attachBid) not yet resolved by a winBid or cancelBid
ReservedAfter(reserved, calls) ==
    IF calls = <<>> THEN reserved
    ELSE LET c == Head(calls)
             d == IF c.op = "attachBid" THEN 1
                  ELSE IF c.op \in {"winBid", "cancelBid"} THEN -1 ELSE 0
         IN  ReservedAfter(IF d = 0 THEN reserved ELSE [reserved EXCEPT ![c.key] = @ + d],
                           Tail(calls))

RECURSIVE MatchedAfter(_, _)
\* per key and label: the MatchedCampaignEvent outcomes delivered so far
MatchedAfter(matched, outcomes) ==
    IF outcomes = <<>> THEN matched
    ELSE LET o == Head(outcomes)
         IN  MatchedAfter(
                IF o.kind = "MatchedCampaignEvent"
                THEN [matched EXCEPT ![<<<<o.info.auctionId, o.info.adSpotId>>, o.label>>] = @ + 1]
                ELSE matched,
                Tail(outcomes))

Record(h, calls, outcomes) ==
    [reserved |-> ReservedAfter(h.reserved, calls),
     matched |-> MatchedAfter(h.matched, outcomes)]

Install(M, op, event) ==
    /\ submitted' = M.submitted
    /\ finished' = M.finished
    /\ banker' = M.banker
    /\ sink' = M.sink
    /\ lastOp' = [op |-> op, event |-> event]
    /\ hist' = Record(hist, M.banker, M.sink)

\* the second matcher before any input: empty tables, nothing held back
NoAlt ==
    [m |-> Matcher(EmptyTable, EmptyTable), banker |-> <<>>, sink |-> <<>>,
     stage |-> "idle", held |-> <<>>]

Init ==
    /\ now = 0
    /\ submitted = EmptyTable
    /\ finished = EmptyTable
    /\ banker = <<>>
    /\ sink = <<>>
    /\ lastOp = [op |-> "init", event |-> NoEvent]
    /\ hist = [reserved |-> [k \in Keys |-> 0], matched |-> [kl \in Keys \X Labels |-> 0]]
    /\ nEvents = 0
    /\ nTicks = 0
    /\ alt = NoAlt

DoAuction(events, max) ==
    /\ nEvents < max
    /\ \E event \in events, dup \in Clashes :
           Install(doAuction(Cur, now, event, dup), "doAuction", event)
    /\ nEvents' = nEvents + 1
    /\ UNCHANGED <<now, nTicks, alt>>

DoEvent(events, max) ==
    /\ nEvents < max
    /\ \E event \in events, dup \in Clashes :
           Install(doEvent(Cur, now, event, dup), "doEvent", event)
    /\ nEvents' = nEvents + 1
    /\ UNCHANGED <<now, nTicks, alt>>

CheckExpiredAuctions ==
    /\ \E dup \in Clashes :
           Install(checkExpiredAuctions(Cur, now, dup), "checkExpiredAuctions", NoEvent)
    /\ UNCHANGED <<now, nEvents, nTicks, alt>>

Tick(steps, max) ==
    /\ nTicks < max
    /\ \E d \in steps : now' = now + d
    /\ nTicks' = nTicks + 1
    /\ banker' = <<>>
    /\ sink' = <<>>
    /\ lastOp' = [op |-> "tick", event |-> NoEvent]
    /\ UNCHANGED <<submitted, finished, nEvents, hist, alt>>

\* one key, every response and every kind of win/loss notification
Next ==
    \/ DoAuction(SubmittedAuctionEvents(now, {1}), MaxEvents)
    \/ DoEvent(WinLossEvents(now, {1}) \cup OtherEvents(now), MaxEvents)
    \/ CheckExpiredAuctions
    \/ Tick(TickSteps, MaxTicks)

Spec == Init /\ [][Next]_vars

\* three spot ids (one of them null), valid and account-less bids, win/loss
\* notifications in time, campaign events with and without a spot
SpotSubmissions(t) ==
    { submittedAuctionEvent(a, s, t + lossTimeout, <<1, 2>>, r) :
        a \in Auctions, s \in AdSpotIds \cup {NullId},
        r \in {r \in Responses : ~isNoBid(r) /\ r.wcm = "none"} }

SpotEvents(t) ==
    { postAuctionEvent(type, a, s, "", 80, t, t, "meta", Account) :
        type \in {"WIN", "LOSS"}, a \in Auctions, s \in AdSpotIds \cup {NullId} }
    \cup
    { postAuctionEvent("CAMPAIGN_EVENT", a, s, "IMPRESSION", 0, t, t, "m1", NoAccount) :
        a \in Auctions, s \in AdSpotIds \cup {NullId} }
    \cup
    { postAuctionEvent("CAMPAIGN_EVENT", a, NullId, "CLICK", 0, t, t, "m1", NoAccount) :
        a \in Auctions }

NextSpots ==
    \/ DoAuction(SpotSubmissions(now), MaxSpotEvents)
    \/ DoEvent(SpotEvents(now), MaxSpotEvents)
    \/ CheckExpiredAuctions
    \/ Tick({lossTimeout}, MaxSpotTicks)

SpecSpots == Init /\ [][NextSpots]_vars

\* one key, a valid bid, repeated win/loss notifications and campaign events
CampaignSubmissions(t) ==
    { submittedAuctionEvent(a, 1, t + lossTimeout, <<1, 2>>, NormalResponse) : a \in Auctions }

CampaignRunEvents(t) ==
    { postAuctionEvent(type, a, 1, "", 80, t, t, "meta", Account) :
        type \in {"WIN", "LOSS"}, a \in Auctions }
    \cup
    { postAuctionEvent("CAMPAIGN_EVENT", a, c[1], c[2], 0, t, t, c[3], NoAccount) :
        a \in Auctions,
        c \in {<<1, "IMPRESSION", "m1">>, <<NullId, "IMPRESSION", "m2">>} }

NextCampaign ==
    \/ DoAuction(CampaignSubmissions(now), MaxCampaignEvents)
    \/ DoEvent(CampaignRunEvents(now), MaxCampaignEvents)
    \/ CheckExpiredAuctions
    \/ Tick({winTimeout}, MaxCampaignTicks)

SpecCampaign == Init /\ [][NextCampaign]_vars

----------------------------------------------------------------------------
(* Helpers of the properties *)

KeyOf(event) == <<event.auctionId, event.adSpotId>>

CallsOf(calls, ops, key) ==
    SelectSeq(calls, LAMBDA c : c.op \in ops /\ c.key = key)

WinLossOutcomes(outcomes) ==
    SelectSeq(outcomes, LAMBDA o : o.kind = "MatchedWinLoss")

CampaignOutcomes(outcomes) ==
    SelectSeq(outcomes, LAMBDA o : o.kind = "MatchedCampaignEvent")

OutcomesFor(outcomes, key) ==
    SelectSeq(outcomes, LAMBDA o :
        o.kind # "UnmatchedEvent" /\ <<o.info.auctionId, o.info.adSpotId>> = key)

FinishedStatus(tbl, key) ==
    IF key \in DOMAIN tbl THEN tbl[key].value.reportedStatus ELSE "none"

\* the step is doEvent on a win/loss notification of the given type
IsWinLossStep(type) == lastOp'.op = "doEvent" /\ lastOp'.event.type = type

\* the response passes the checks of doBidResult and its price can be evaluated
ValidBid(response) ==
    response.account # NoAccount /\ ~isNoBid(response) /\ response.wcm # "throws"

----------------------------------------------------------------------------
(* C1 *)

\* C1 (as stated): a submission resolved by cancelBid, recorded as a LOSS in
\* finished, is never followed by a winBid or forceWinBid for the same key.
C1_NoCommitAfterCancel ==
    [][\A k \in DOMAIN finished :
          finished[k].value.reportedStatus = "LOSS"
          => CallsOf(banker', {"winBid", "forceWinBid"}, k) = <<>>]_vars

\* C1 (amended): for every key the winBid and cancelBid calls never exceed the
\* attachBid calls (a reservation is committed or released at most once), and
\* no forceWinBid is issued for a key whose finished entry records a WIN.
C1_AtMostOncePerReservation ==
    [][/\ \A k \in Keys : hist'.reserved[k] >= 0
       /\ \A k \in DOMAIN finished :
             finished[k].value.reportedStatus = "WIN"
             => CallsOf(banker', {"forceWinBid"}, k) = <<>>]_vars

\* a late win: forceWinBid for a key whose only reservation was already released
C1_Witness ==
    \E k \in DOMAIN finished :
        /\ CallsOf(banker, {"forceWinBid"}, k) # <<>>
        /\ hist.reserved[k] = 0
        /\ finished[k].value.reportedStatus = "WIN"

----------------------------------------------------------------------------
(* C3 *)

\* C3: no key is present in both submitted and finished.
C3_MutualExclusion == (DOMAIN submitted) \cap (DOMAIN finished) = {}

----------------------------------------------------------------------------
(* C4 *)

\* C4: once finished[key] records a WIN no step changes it to LOSS while the
\* entry exists, no MatchedWinLoss Loss is emitted for the key, a LOSS event on
\* it changes neither table; the only status change of a finished entry is
\* LOSS to WIN, and that step emits a LateWin.
C4_FinishedMonotone ==
    [][\A k \in DOMAIN finished :
          /\ finished[k].value.reportedStatus = "WIN"
             => /\ FinishedStatus(finished', k) \in {"WIN", "none"}
                /\ \A i \in DOMAIN sink' :
                      ~(/\ sink'[i].kind = "MatchedWinLoss"
                        /\ sink'[i].type = "Loss"
                        /\ KeyOf(sink'[i].info) = k)
                /\ (IsWinLossStep("LOSS") /\ KeyOf(lastOp'.event) = k)
                   => (submitted' = submitted /\ finished' = finished)
          /\ (k \in DOMAIN finished'
              /\ finished'[k].value.reportedStatus # finished[k].value.reportedStatus)
             => /\ finished[k].value.reportedStatus = "LOSS"
                /\ \E i \in DOMAIN sink' :
                      /\ sink'[i].kind = "MatchedWinLoss"
                      /\ sink'[i].type = "LateWin"
                      /\ KeyOf(sink'[i].info) = k]_vars

----------------------------------------------------------------------------
(* C9 *)

ValidFor(type, response) ==
    /\ response.account # NoAccount
    /\ ~isNoBid(response)
    /\ type = "WIN" => response.wcm # "throws"

\* the effect C9 states for a win/loss notification on a submitted key with a
\* bid request that is not in finished; onlyValid restricts it to the bids
\* that pass the checks of doBidResult
NormalWinLoss(type, onlyValid) ==
    LET e == lastOp'.event
        k == KeyOf(e)
        bid == submitted[k].value.bid
        bidId == makeBidId(k[1], k[2], bid.agent)
        outcomes == WinLossOutcomes(sink')
    IN  (/\ IsWinLossStep(type)
         /\ k \in DOMAIN submitted
         /\ submitted[k].value.bidRequest # NullRequest
         /\ k \notin DOMAIN finished
         /\ onlyValid => (ValidFor(type, bid) /\ k[2] # NullId))
        => /\ k \notin DOMAIN submitted'
           /\ banker' = << [op |-> IF type = "WIN" THEN "winBid" ELSE "cancelBid",
                            account |-> bid.account, bidId |-> bidId,
                            amount |-> IF type = "WIN" THEN WcmEvaluate(bid, e.winPrice) ELSE 0,
                            key |-> k] >>
           /\ k \in DOMAIN finished'
           /\ finished'[k].value.reportedStatus = type
           /\ finished'[k].value.bid = bid
           /\ finished'[k].timeout =
                 now + (IF type = "WIN" THEN winTimeout ELSE auctionTimeout)
           /\ Len(outcomes) = 1
           /\ outcomes[1].type = (IF type = "WIN" THEN "Win" ELSE "Loss")
           /\ outcomes[1].confidence = (IF type = "WIN" THEN "Guaranteed" ELSE "Inferred")
           /\ KeyOf(outcomes[1].info) = k

\* C9 (as stated): a WIN on a submitted key with a bid request, not in finished,
\* pops the entry, calls winBid once with the win-cost price and the bid id of
\* the submission, no cancelBid, inserts finished WIN expiring at now +
\* winTimeout and emits one MatchedWinLoss{Win, Guaranteed}; a LOSS calls
\* cancelBid once, inserts finished LOSS expiring at now + auctionTimeout and
\* emits MatchedWinLoss{Loss, Inferred}.
C9_NormalWin == [][NormalWinLoss("WIN", FALSE) /\ NormalWinLoss("LOSS", FALSE)]_vars

\* C9 (amended): the same, for a bid with a non-empty account and a non-empty
\* adSpotId that is not a no-bid and, on a WIN, whose win-cost model evaluates.
C9_NormalWinOfValidBid == [][NormalWinLoss("WIN", TRUE) /\ NormalWinLoss("LOSS", TRUE)]_vars

\* a WIN has just been committed with winBid and recorded in finished
C9_Witness ==
    /\ lastOp.op = "doEvent"
    /\ lastOp.event.type = "WIN"
    /\ Len(banker) = 1
    /\ banker[1].op = "winBid"
    /\ KeyOf(lastOp.event) \in DOMAIN finished
    /\ finished[KeyOf(lastOp.event)].timeout = now + winTimeout
    /\ KeyOf(lastOp.event) \notin DOMAIN submitted

----------------------------------------------------------------------------
(* C10 *)

\* C10: a WIN for a key whose finished entry records a LOSS calls forceWinBid
\* once with the account of the finished bid and the win price of the event,
\* updates the entry in place to WIN with that win price keeping its expiry,
\* emits one MatchedWinLoss{LateWin, Guaranteed} and leaves submitted alone.
C10_LateWin ==
    [][LET e == lastOp'.event
           k == KeyOf(e)
           outcomes == WinLossOutcomes(sink')
       IN  (/\ IsWinLossStep("WIN")
            /\ k \in DOMAIN finished
            /\ finished[k].value.reportedStatus = "LOSS")
           => /\ banker' = << [op |-> "forceWinBid",
                               account |-> finished[k].value.bid.account,
                               bidId |-> NoBidId, amount |-> e.winPrice, key |-> k] >>
              /\ DOMAIN finished' = DOMAIN finished
              /\ \A j \in DOMAIN finished : j # k => finished'[j] = finished[j]
              /\ finished'[k].timeout = finished[k].timeout
              /\ finished'[k].value.reportedStatus = "WIN"
              /\ finished'[k].value.winPrice = e.winPrice
              /\ finished'[k].value.bid = finished[k].value.bid
              /\ Len(outcomes) = 1
              /\ outcomes[1].type = "LateWin"
              /\ outcomes[1].confidence = "Guaranteed"
              /\ outcomes[1].info = finished'[k].value
              /\ submitted' = submitted]_vars

\* a late win has just been committed over a loss inferred by the sweeper
C10_Witness ==
    /\ lastOp.op = "doEvent"
    /\ lastOp.event.type = "WIN"
    /\ Len(banker) = 1
    /\ banker[1].op = "forceWinBid"
    /\ KeyOf(lastOp.event) \in DOMAIN finished
    /\ finished[KeyOf(lastOp.event)].value.reportedStatus = "WIN"
    /\ finished[KeyOf(lastOp.event)].value.price = 0
    /\ finished[KeyOf(lastOp.event)].value.winPrice = lastOp.event.winPrice
    /\ Len(sink) = 1
    /\ sink[1].type = "LateWin"

----------------------------------------------------------------------------
(* C5 *)

\* C5: every MatchedWinLoss and MatchedCampaignEvent delivered carries a
\* FinishedInfo with a non-empty adSpotId and a non-empty bid account, and
\* every entry of finished has a non-empty adSpotId.
C5_NoEmptySpotOrAccount ==
    /\ \A i \in DOMAIN sink :
          sink[i].kind # "UnmatchedEvent"
          => /\ sink[i].info.adSpotId # NullId
             /\ sink[i].info.bid.account # NoAccount
    /\ \A k \in DOMAIN finished :
          /\ k[2] # NullId
          /\ finished[k].value.adSpotId = k[2]

\* a campaign event without a spot has just been matched to a finished entry
C5_Witness ==
    /\ lastOp.op = "doEvent"
    /\ lastOp.event.type = "CAMPAIGN_EVENT"
    /\ lastOp.event.adSpotId = NullId
    /\ Len(sink) = 1
    /\ sink[1].kind = "MatchedCampaignEvent"
    /\ sink[1].info.adSpotId # NullId
    /\ sink[1].info.bid.account # NoAccount

----------------------------------------------------------------------------
(* C6 *)

RecordedLabels(tbl, key) ==
    IF key \in DOMAIN tbl THEN DOMAIN tbl[key].value.campaignEvents ELSE {}

\* a win/loss event repeating the status finished[key] records changes neither
\* table, calls no banker method and emits no MatchedWinLoss
DuplicateWinLossIgnored ==
    \A type \in {"WIN", "LOSS"} :
        (/\ IsWinLossStep(type)
         /\ KeyOf(lastOp'.event) \in DOMAIN finished
         /\ finished[KeyOf(lastOp'.event)].value.reportedStatus = type)
        => /\ submitted' = submitted
           /\ finished' = finished
           /\ banker' = <<>>
           /\ WinLossOutcomes(sink') = <<>>

\* a campaign event whose label finished[key] already holds, key being the key
\* of the event or the one its auction completes to, leaves finished unchanged
\* and emits no MatchedCampaignEvent
DuplicateCampaignEventIgnored ==
    (lastOp'.op = "doEvent" /\ lastOp'.event.type = "CAMPAIGN_EVENT")
    => \A k \in DOMAIN finished :
          (/\ \/ k = KeyOf(lastOp'.event)
              \/ /\ lastOp'.event.adSpotId = NullId
                 /\ k = completePrefix(finished, lastOp'.event.auctionId)
           /\ lastOp'.event.label \in RecordedLabels(finished, k))
          => /\ finished' = finished
             /\ CampaignOutcomes(sink') = <<>>

\* C6 (as stated): duplicates of a recorded win/loss status or campaign label
\* change nothing and emit nothing, and at most one MatchedCampaignEvent is
\* ever emitted per key and label.
C6_DuplicatesIdempotent ==
    [][/\ DuplicateWinLossIgnored
       /\ DuplicateCampaignEventIgnored
       /\ \A kl \in Keys \X Labels : hist'.matched[kl] <= 1]_vars

\* C6 (amended): duplicates change nothing and emit nothing; a
\* MatchedCampaignEvent for a key and label is emitted once, by the step that
\* first records the label in the current finished entry of the key, and the
\* recorded entry of a label is never replaced while the label stays recorded.
C6_DuplicatesIdempotentPerEntry ==
    [][/\ DuplicateWinLossIgnored
       /\ DuplicateCampaignEventIgnored
       /\ \A i \in DOMAIN sink' :
             sink'[i].kind = "MatchedCampaignEvent"
             => /\ sink'[i].label \notin RecordedLabels(finished, KeyOf(sink'[i].info))
                /\ sink'[i].label \in RecordedLabels(finished', KeyOf(sink'[i].info))
                /\ \A j \in DOMAIN sink' :
                      (/\ sink'[j].kind = "MatchedCampaignEvent"
                       /\ sink'[j].label = sink'[i].label
                       /\ KeyOf(sink'[j].info) = KeyOf(sink'[i].info)) => j = i
       /\ \A k \in DOMAIN finished :
             \A l \in RecordedLabels(finished, k) \cap RecordedLabels(finished', k) :
                finished'[k].value.campaignEvents[l] = finished[k].value.campaignEvents[l]]_vars

\* a campaign event has just been rejected as a duplicate of a recorded label
C6_Witness ==
    /\ lastOp.op = "doEvent"
    /\ lastOp.event.type = "CAMPAIGN_EVENT"
    /\ Len(sink) = 1
    /\ sink[1].kind = "UnmatchedEvent"
    /\ sink[1].reason = "duplicate"
    /\ \E k \in DOMAIN finished :
          /\ lastOp.event.label \in RecordedLabels(finished, k)
          /\ finished[k].value.campaignEvents[lastOp.event.label].meta # lastOp.event.metadata
          /\ hist.matched[<<k, lastOp.event.label>>] = 1

----------------------------------------------------------------------------
(* Two matchers given one submission and one notification in both orders *)

\* the banker calls that name a bid
BidCalls(calls) == SelectSeq(calls, LAMBDA c : c.key # NoKey)

TrimAlt(M) == [M EXCEPT !.banker = BidCalls(@)]

AltClashes == SUBSET ((DOMAIN alt.m.submitted) \cap (DOMAIN alt.m.finished))

ReorderSubmissions(t) ==
    { submittedAuctionEvent(a, 1, t + lossTimeout, <<1, 2>>, r) :
        a \in Auctions, r \in Responses }

\* wins of both prices whose bid is 5 s old, a loss, a win whose bid is
\* lossTimeout old
ReorderNotifications(t) ==
    { postAuctionEvent("WIN", a, 1, "", p, t, t - 5, "meta", Account) :
        a \in Auctions, p \in WinPrices }
    \cup
    { postAuctionEvent("LOSS", a, 1, "", 80, t, t, "meta", Account) : a \in Auctions }
    \cup
    { postAuctionEvent("WIN", a, 1, "", 80, t, t - lossTimeout, "meta", Account) :
        a \in Auctions }

\* doAuction(s) here, doEvent(w) in the second matcher, both from the current
\* tables; w and s are held back for ReorderSecond
ReorderFirst(submissions, notifications, max) ==
    /\ alt.stage = "idle"
    /\ nEvents < max
    /\ \E s \in submissions, w \in notifications, dup \in Clashes :
          /\ KeyOf(s) = KeyOf(w)
          /\ LET M == doAuction(Cur, now, s, dup)
             IN  /\ Install(M, "reorderFirst", s)
                 /\ alt' = [m |-> TrimAlt(doEvent(Cur, now, w, dup)),
                            banker |-> BidCalls(M.banker), sink |-> M.sink,
                            stage |-> "half",
                            held |-> [s |-> s, w |-> w, t |-> now,
                                      known |-> KeyOf(s) \in DOMAIN submitted,
                                      wasFinished |-> KeyOf(s) \in DOMAIN finished,
                                      expired |-> FALSE]]
    /\ nEvents' = nEvents + 1
    /\ UNCHANGED <<now, nTicks>>

\* doEvent(w) here, doAuction(s) in the second matcher
ReorderSecond ==
    /\ alt.stage = "half"
    /\ \E dup \in Clashes, dup2 \in AltClashes :
          LET M == doEvent(Cur, now, alt.held.w, dup)
          IN  /\ Install(M, "reorderSecond", alt.held.w)
              /\ alt' = [alt EXCEPT !.m = TrimAlt(doAuction(@, now, alt.held.s, dup2)),
                                    !.banker = @ \o BidCalls(M.banker),
                                    !.sink = @ \o M.sink,
                                    !.stage = "idle"]
    /\ UNCHANGED <<now, nEvents, nTicks>>

\* checkExpiredAuctions in both matchers
CheckExpiredBoth ==
    /\ \E dup \in Clashes, dup2 \in AltClashes :
          LET M == checkExpiredAuctions(Cur, now, dup)
              gone == expired(submitted, now) \cup expired(alt.m.submitted, now)
          IN  /\ Install(M, "checkExpiredAuctions", NoEvent)
              /\ alt' = [alt EXCEPT !.m = TrimAlt(checkExpiredAuctions(@, now, dup2)),
                                    !.banker = @ \o BidCalls(M.banker),
                                    !.sink = @ \o M.sink,
                                    !.held = IF alt.stage = "half" /\ KeyOf(@.s) \in gone
                                             THEN [@ EXCEPT !.expired = TRUE] ELSE @]
    /\ UNCHANGED <<now, nEvents, nTicks>>

NextReorder ==
    \/ ReorderFirst(ReorderSubmissions(now), ReorderNotifications(now), MaxReorderRounds)
    \/ ReorderSecond
    \/ CheckExpiredBoth
    \/ Tick({5, lossTimeout}, MaxReorderTicks)

SpecReorder == Init /\ [][NextReorder]_vars

----------------------------------------------------------------------------
(* C7 *)

Commits(calls, key) == CallsOf(calls, {"winBid", "forceWinBid", "cancelBid"}, key)

\* the step completes both orders of a submission and a WIN whose gap since
\* bidTimestamp was below lossTimeout, and no sweep expired the key in between
ReorderedWin ==
    /\ lastOp'.op = "reorderSecond"
    /\ alt.held.w.type = "WIN"
    /\ getTimeGapMs(alt.held.t, alt.held.w.bidTimestamp) < lossTimeout * 1000
    /\ ~alt.held.expired

\* both orders leave the same entry for the key and made the same commits
SameOutcome(key) ==
    /\ (key \in DOMAIN finished') = (key \in DOMAIN alt'.m.finished)
    /\ key \in DOMAIN finished' => finished'[key] = alt'.m.finished[key]
    /\ (key \in DOMAIN submitted') = (key \in DOMAIN alt'.m.submitted)
    /\ Commits(alt'.banker, key) = Commits(alt'.m.banker, key)

\* finished[key] records the WIN of the held bid and one winBid committed it
WonOnce(key) ==
    /\ key \in DOMAIN finished'
    /\ finished'[key].value.reportedStatus = "WIN"
    /\ finished'[key].value.price = alt.held.w.winPrice
    /\ finished'[key].value.winPrice = alt.held.w.winPrice
    /\ finished'[key].value.winMeta = alt.held.w.metadata
    /\ finished'[key].value.bid = alt.held.s.bidResponse
    /\ Len(Commits(alt'.banker, key)) = 1
    /\ Commits(alt'.banker, key)[1].op = "winBid"
    /\ key \notin DOMAIN submitted'

----------------------------------------------------------------------------
(* Two matchers given campaign events before and after the notification *)

ClashesOf(M) == SUBSET ((DOMAIN M.submitted) \cap (DOMAIN M.finished))

ReplaySubmissions(t) ==
    { submittedAuctionEvent(a, 1, t + lossTimeout, <<1, 2>>, r) :
        a \in Auctions, r \in {r \in Responses : r.account # NoAccount /\ r.wcm = "none"} }

ReplayNotifications(t) ==
    { postAuctionEvent(type, a, 1, "", 80, t, t, "meta", Account) :
        type \in {"WIN", "LOSS"}, a \in Auctions }

ReplayCampaignEvents(t) ==
    { postAuctionEvent("CAMPAIGN_EVENT", a, c[1], c[2], 0, t, t, c[3], NoAccount) :
        a \in Auctions,
        c \in {<<1, "IMPRESSION", "m1">>, <<NullId, "IMPRESSION", "m2">>, <<1, "CLICK", "m1">>} }

\* doAuction(s) in both matchers, from the current tables; the second one
\* handles the notification w at once, this one holds it back
ReplayStart(submissions, notifications, max) ==
    /\ alt.stage = "idle"
    /\ nEvents < max
    /\ \E s \in submissions, w \in notifications, dup \in Clashes :
          /\ KeyOf(s) = KeyOf(w)
          /\ LET M == doAuction(Cur, now, s, dup)
             IN  /\ Install(M, "replayStart", s)
                 /\ \E dup2 \in ClashesOf(M) :
                       alt' = [m |-> TrimAlt(doEvent(M, now, w, dup2)),
                               banker |-> BidCalls(M.banker), sink |-> M.sink,
                               stage |-> "buffering",
                               held |-> [s |-> s, w |-> w, t |-> now, events |-> <<>>]]
    /\ nEvents' = nEvents + 1
    /\ UNCHANGED <<now, nTicks>>

\* doEvent of one campaign event in both matchers
ReplayCampaignEvent(events, max) ==
    /\ alt.stage = "buffering"
    /\ Len(alt.held.events) < max
    /\ \E e \in events, dup \in Clashes, dup2 \in AltClashes :
          LET M == doEvent(Cur, now, e, dup)
          IN  /\ Install(M, "replayCampaignEvent", e)
              /\ alt' = [alt EXCEPT !.m = TrimAlt(doEvent(@, now, e, dup2)),
                                    !.banker = @ \o BidCalls(M.banker),
                                    !.sink = @ \o M.sink,
                                    !.held.events = Append(@, e)]
    /\ UNCHANGED <<now, nEvents, nTicks>>

\* doEvent of the notification held back
ReplayNotify ==
    /\ alt.stage = "buffering"
    /\ \E dup \in Clashes :
          LET M == doEvent(Cur, now, alt.held.w, dup)
          IN  /\ Install(M, "replayNotify", alt.held.w)
              /\ alt' = [alt EXCEPT !.banker = @ \o BidCalls(M.banker),
                                    !.sink = @ \o M.sink,
                                    !.stage = "idle"]
    /\ UNCHANGED <<now, nEvents, nTicks>>

NextReplay ==
    \/ ReplayStart(ReplaySubmissions(now), ReplayNotifications(now), MaxReplayRounds)
    \/ ReplayCampaignEvent(ReplayCampaignEvents(now), MaxReplayEvents)
    \/ ReplayNotify
    \/ Tick({5}, MaxReplayTicks)

SpecReplay == Init /\ [][NextReplay]_vars

----------------------------------------------------------------------------
(* C8 *)

RECURSIVE FirstOfEachLabel(_, _)
\* the labels of the events in order, each label at its first event only
FirstOfEachLabel(events, seen) ==
    IF events = <<>> THEN <<>>
    ELSE IF Head(events).label \in seen THEN FirstOfEachLabel(Tail(events), seen)
    ELSE <<Head(events).label>>
         \o FirstOfEachLabel(Tail(events), seen \cup {Head(events).label})

LabelsOf(outcomes) == [i \in DOMAIN outcomes |-> outcomes[i].label]

----------------------------------------------------------------------------
(* The matcher swept as time advances *)

\* a submission is accepted only while the clock can still pass its expiry
NextFair ==
    \/ (nTicks < MaxTicks /\ DoAuction(SubmittedAuctionEvents(now, {1}), MaxEvents))
    \/ DoEvent(WinLossEvents(now, {1}) \cup OtherEvents(now), MaxEvents)
    \/ CheckExpiredAuctions
    \/ Tick(TickSteps, MaxTicks)

\* time advances and checkExpiredAuctions keeps being invoked
SpecFair ==
    /\ Init
    /\ [][NextFair]_vars
    /\ WF_vars(Tick(TickSteps, MaxTicks))
    /\ WF_vars(CheckExpiredAuctions)

----------------------------------------------------------------------------
(* C2 *)

\* the last operation made a winBid, forceWinBid or cancelBid for the account
Resolved(account) ==
    \E i \in DOMAIN banker :
        /\ banker[i].op \in {"winBid", "forceWinBid", "cancelBid"}
        /\ banker[i].account = account

\* C2: every submission accepted by doAuction is eventually followed by a
\* winBid, forceWinBid or cancelBid for its account, provided time advances
\* and checkExpiredAuctions keeps being invoked.
C2_EventualResolution ==
    \A account \in {Account, NoAccount} :
        (lastOp.op = "doAuction" /\ lastOp.event.bidResponse.account = account)
        ~> Resolved(account)

----------------------------------------------------------------------------
(* The matcher given notifications before, with and without submissions *)

EarlyEvents(t) ==
    WinLossEvents(t, {1})
    \cup
    { postAuctionEvent("CAMPAIGN_EVENT", a, 1, "IMPRESSION", 0, t, t, "m1", NoAccount) :
        a \in Auctions }

NextEarly ==
    \/ DoAuction(SubmittedAuctionEvents(now, {1}), MaxEarlyEvents)
    \/ DoEvent(EarlyEvents(now), MaxEarlyEvents)
    \/ CheckExpiredAuctions
    \/ Tick({5, lossTimeout}, MaxEarlyTicks)

SpecEarly == Init /\ [][NextEarly]_vars

----------------------------------------------------------------------------
(* C11 *)

IsPlaceholder(tbl, key) ==
    key \in DOMAIN tbl /\ tbl[key].value.bidRequest = NullRequest

\* a win/loss notification for a key in neither table, its bid recent: a
\* placeholder holding the event, expiring lossTimeout from now; nothing else
EarlyWinBuffered ==
    \A type \in {"WIN", "LOSS"} :
        (/\ IsWinLossStep(type)
         /\ KeyOf(lastOp'.event) \notin DOMAIN submitted
         /\ KeyOf(lastOp'.event) \notin DOMAIN finished
         /\ getTimeGapMs(now, lastOp'.event.bidTimestamp) < lossTimeout * 1000)
        => /\ submitted' = TableInsert(submitted, KeyOf(lastOp'.event),
                              [EmptySubmission EXCEPT !.earlyWinEvents = <<lastOp'.event>>],
                              now + lossTimeout)
           /\ finished' = finished
           /\ banker' = <<>>
           /\ sink' = <<>>

\* a further notification for the placeholder is appended and the expiry reset
EarlyWinAppended ==
    \A type \in {"WIN", "LOSS"} :
        (IsWinLossStep(type) /\ IsPlaceholder(submitted, KeyOf(lastOp'.event)))
        => LET k == KeyOf(lastOp'.event)
           IN  /\ submitted' = [submitted EXCEPT ![k] =
                      [value |-> [@.value EXCEPT !.earlyWinEvents = Append(@, lastOp'.event)],
                       timeout |-> now + lossTimeout]]
               /\ finished' = finished
               /\ banker' = <<>>
               /\ sink' = <<>>

\* doAuction on a placeholder whose buffer satisfies wins: attachBid first,
\* then the win of the first buffered event committed and recorded
EarlyWinReplayed(wins(_), onlyValid) ==
    LET s == lastOp'.event
        k == KeyOf(s)
        early == submitted[k].value.earlyWinEvents
        bidId == makeBidId(k[1], k[2], s.bidResponse.agent)
    IN  (/\ lastOp'.op = "doAuction"
         /\ IsPlaceholder(submitted, k)
         /\ wins(early)
         /\ onlyValid => ValidFor("WIN", s.bidResponse))
        => /\ banker' # <<>>
           /\ banker'[1] = [op |-> "attachBid", account |-> s.bidResponse.account,
                            bidId |-> bidId, amount |-> s.bidResponse.maxPrice, key |-> k]
           /\ CallsOf(banker', {"winBid"}, k) # <<>>
           /\ \E i \in DOMAIN sink' :
                 /\ sink'[i].kind = "MatchedWinLoss"
                 /\ sink'[i].type = "Win"
                 /\ sink'[i].confidence = "Guaranteed"
           /\ k \notin DOMAIN submitted'
           /\ k \in DOMAIN finished'

HoldsWin(early) == \E i \in DOMAIN early : early[i].type = "WIN"
StartsWithWin(early) == early # <<>> /\ Head(early).type = "WIN"

----------------------------------------------------------------------------
(* C12 *)

\* C12: a win/loss event for a key in neither table whose gap since
\* bidTimestamp is at least lossTimeout leaves both tables unchanged, emits no
\* MatchedWinLoss and calls forceWinBid(event.account, event.winPrice) exactly
\* once if event.account is non-empty, and makes no banker call if it is empty.
C12_OrphanLateWin ==
    [][\A type \in {"WIN", "LOSS"} :
          (/\ IsWinLossStep(type)
           /\ KeyOf(lastOp'.event) \notin DOMAIN submitted
           /\ KeyOf(lastOp'.event) \notin DOMAIN finished
           /\ getTimeGapMs(now, lastOp'.event.bidTimestamp) >= lossTimeout * 1000)
          => /\ submitted' = submitted
             /\ finished' = finished
             /\ WinLossOutcomes(sink') = <<>>
             /\ banker' = IF lastOp'.event.account # NoAccount
                          THEN << [op |-> "forceWinBid", account |-> lastOp'.event.account,
                                   bidId |-> NoBidId, amount |-> lastOp'.event.winPrice,
                                   key |-> KeyOf(lastOp'.event)] >>
                          ELSE <<>>]_vars

\* a WIN whose bid is exactly lossTimeout old, naming an account, has just
\* been reconciled for a key unknown to both tables
C12_Witness ==
    /\ lastOp.op = "doEvent"
    /\ lastOp.event.type = "WIN"
    /\ getTimeGapMs(now, lastOp.event.bidTimestamp) >= lossTimeout * 1000
    /\ Len(banker) = 1
    /\ banker[1].op = "forceWinBid"
    /\ banker[1].account = Account
    /\ submitted = EmptyTable
    /\ finished = EmptyTable
    /\ now > 0

----------------------------------------------------------------------------
(* C13 *)

\* a campaign event whose auction is found in submitted is appended to the
\* entry (expiry unchanged) and reported inFlight; nothing else happens
CampaignEventBuffered ==
    (lastOp'.op = "doEvent" /\ lastOp'.event.type = "CAMPAIGN_EVENT")
    => LET e == lastOp'.event
           inSub == findAuction(submitted, e.auctionId, e.adSpotId)
           k == <<e.auctionId, inSub.adSpotId>>
       IN  inSub.found
           => /\ submitted' = [submitted EXCEPT
                     ![k].value.earlyCampaignEvents = Append(@, e)]
              /\ sink' = << unmatchedEvent("inFlight", e) >>
              /\ banker' = <<>>
              /\ finished' = finished

\* a WIN for a submitted key holding buffered campaign events emits the Win
\* first and then matches the first buffered event against the new entry
BufferedEventReplayed(onlyValid) ==
    LET k == KeyOf(lastOp'.event)
        early == submitted[k].value.earlyCampaignEvents
    IN  (/\ IsWinLossStep("WIN")
         /\ k \in DOMAIN submitted
         /\ submitted[k].value.bidRequest # NullRequest
         /\ early # <<>>
         /\ onlyValid => (k \notin DOMAIN finished
                          /\ ValidFor("WIN", submitted[k].value.bid)))
        => /\ Len(sink') >= 2
           /\ sink'[1].kind = "MatchedWinLoss"
           /\ sink'[1].type = "Win"
           /\ sink'[2].kind = "MatchedCampaignEvent"
           /\ sink'[2].label = Head(early).label
           /\ KeyOf(sink'[2].info) = k
           /\ k \in DOMAIN finished'
           /\ Head(early).label \in RecordedLabels(finished', k)
           /\ finished'[k].value.campaignEvents[Head(early).label].meta
                 = Head(early).metadata

----------------------------------------------------------------------------
(* Two matchers given the same inputs, one of them also events that raise *)

Restart(M) == Matcher(M.submitted, M.finished)

\* the keys of the events that raised here and were withheld from the second
\* matcher, and whether a campaign event with an empty spot came after them
Faults == IF alt.stage = "isolating" THEN alt.held ELSE [keys |-> {}, prefixed |-> FALSE]

IsolateSubmissions(t) ==
    { submittedAuctionEvent(a, s, t + lossTimeout, <<1, 2>>, r) :
        a \in Auctions, s \in AdSpotIds \cup {NullId},
        r \in {r \in Responses : r.wcm = "none"} }

IsolateEvents(t) ==
    { postAuctionEvent(type, a, s, "", 80, t, t, "meta", Account) :
        type \in {"WIN", "LOSS"}, a \in Auctions, s \in AdSpotIds \cup {NullId} }
    \cup
    { postAuctionEvent("CAMPAIGN_EVENT", a, s, "IMPRESSION", 0, t, t, "m1", NoAccount) :
        a \in Auctions, s \in AdSpotIds \cup {NullId} }
    \cup OtherEvents(t)

\* the choices of PendingList::insert agree on the keys no fault touched
SameChoice(dup, dup2) == dup \ Faults.keys = dup2 \ Faults.keys

IsolateDoAuction(events, max) ==
    /\ nEvents < max
    /\ \E e \in events, dup \in Clashes, dup2 \in AltClashes :
          /\ SameChoice(dup, dup2)
          /\ Install(doAuction(Cur, now, e, dup), "doAuction", e)
          /\ alt' = [alt EXCEPT !.m = doAuction(Restart(@), now, e, dup2),
                                !.stage = "isolating", !.held = Faults]
    /\ nEvents' = nEvents + 1
    /\ UNCHANGED <<now, nTicks>>

\* an event whose handler does not raise here goes to both matchers
IsolateDoEvent(events, max) ==
    /\ nEvents < max
    /\ \E e \in events, dup \in Clashes, dup2 \in AltClashes :
          /\ SameChoice(dup, dup2)
          /\ ~dispatch(Cur, now, e, dup).exc
          /\ Install(doEvent(Cur, now, e, dup), "doEvent", e)
          /\ alt' = [alt EXCEPT
                !.m = doEvent(Restart(@), now, e, dup2),
                !.stage = "isolating",
                !.held = [Faults EXCEPT !.prefixed =
                            @ \/ (Faults.keys # {} /\ e.type = "CAMPAIGN_EVENT"
                                  /\ e.adSpotId = NullId)]]
    /\ nEvents' = nEvents + 1
    /\ UNCHANGED <<now, nTicks>>

\* an event whose handler raises is ingested here only
IsolateFault(events, max) ==
    /\ nEvents < max
    /\ \E e \in events, dup \in Clashes :
          /\ dispatch(Cur, now, e, dup).exc
          /\ Install(doEvent(Cur, now, e, dup), "faultyEvent", e)
          /\ alt' = [alt EXCEPT !.m = Restart(@), !.stage = "isolating",
                                !.held = [Faults EXCEPT !.keys = @ \cup {KeyOf(e)}]]
    /\ nEvents' = nEvents + 1
    /\ UNCHANGED <<now, nTicks>>

IsolateSweep ==
    /\ \E dup \in Clashes, dup2 \in AltClashes :
          /\ SameChoice(dup, dup2)
          /\ Install(checkExpiredAuctions(Cur, now, dup), "checkExpiredAuctions", NoEvent)
          /\ alt' = [alt EXCEPT !.m = checkExpiredAuctions(Restart(@), now, dup2),
                                !.stage = "isolating", !.held = Faults]
    /\ UNCHANGED <<now, nEvents, nTicks>>

NextIsolate ==
    \/ IsolateDoAuction(IsolateSubmissions(now), MaxIsolateEvents)
    \/ IsolateDoEvent(IsolateEvents(now), MaxIsolateEvents)
    \/ IsolateFault(IsolateEvents(now), MaxIsolateEvents)
    \/ IsolateSweep
    \/ Tick({lossTimeout}, MaxIsolateTicks)

SpecIsolate == Init /\ [][NextIsolate]_vars

----------------------------------------------------------------------------
(* C14 *)

EntryOf(tbl, key) == IF key \in DOMAIN tbl THEN <<tbl[key]>> ELSE <<>>

\* an event of an unknown type changes nothing and produces nothing
UnknownTypeIgnored ==
    (/\ lastOp'.op \in {"doEvent", "faultyEvent"}
     /\ lastOp'.event.type \notin {"WIN", "LOSS", "CAMPAIGN_EVENT"})
    => /\ submitted' = submitted
       /\ finished' = finished
       /\ banker' = <<>>
       /\ sink' = <<>>

\* the step made the same banker calls and outcomes in both matchers and left
\* the same entries for the keys of no withheld event
SameProcessing ==
    /\ banker' = alt'.m.banker
    /\ sink' = alt'.m.sink
    /\ \A k \in Keys \ alt'.held.keys :
          /\ EntryOf(submitted', k) = EntryOf(alt'.m.submitted, k)
          /\ EntryOf(finished', k) = EntryOf(alt'.m.finished, k)

\* the step ingests, after some event raised, an input for another key
AfterFault ==
    /\ lastOp'.op \in {"doEvent", "doAuction"}
    /\ Faults.keys # {}
    /\ KeyOf(lastOp'.event) \notin Faults.keys

\* C14 (as stated): an event of an unknown type has no effect, and after an
\* event whose handler raised every later event for another key is processed
\* exactly as if the raising event had never been ingested.
C14_FaultIsolation ==
    [][UnknownTypeIgnored /\ (AfterFault => SameProcessing)]_vars

\* C14 (amended): as stated for later events naming their spot, as long as no
\* campaign event with an empty spot id came after the raising event.
C14_FaultIsolationOfNamedSpots ==
    [][/\ UnknownTypeIgnored
       /\ (AfterFault /\ lastOp'.event.adSpotId # NullId /\ ~alt'.held.prefixed)
          => SameProcessing]_vars

\* after a WIN raised on a submission and removed it, a WIN for the other
\* spot has been handled alike in both matchers
C14_Witness ==
    /\ lastOp.op = "doEvent"
    /\ lastOp.event.type = "WIN"
    /\ alt.stage = "isolating"
    /\ alt.held.keys # {}
    /\ ~alt.held.prefixed
    /\ KeyOf(lastOp.event) \notin alt.held.keys
    /\ \E k \in alt.held.keys : k \in DOMAIN alt.m.submitted /\ k \notin DOMAIN submitted
    /\ KeyOf(lastOp.event) \in DOMAIN submitted
    /\ KeyOf(lastOp.event) \in DOMAIN alt.m.submitted

----------------------------------------------------------------------------
(* C15 *)

\* every entry without a bid request holds a buffered event
PlaceholdersHoldEvents ==
    \A k \in DOMAIN submitted :
        IsPlaceholder(submitted, k)
        => \/ submitted[k].value.earlyWinEvents # <<>>
           \/ submitted[k].value.earlyCampaignEvents # <<>>

\* a step other than doAuction for the key makes no banker call and no
\* MatchedWinLoss for a placeholder; the placeholder stays until a sweep finds
\* it expired and then goes without a trace
PlaceholdersInert ==
    \A k \in DOMAIN submitted :
        (/\ IsPlaceholder(submitted, k)
         /\ ~(lastOp'.op = "doAuction" /\ KeyOf(lastOp'.event) = k))
        => /\ CallsOf(banker', {"attachBid", "winBid", "forceWinBid", "cancelBid"}, k) = <<>>
           /\ \A i \in DOMAIN sink' :
                 sink'[i].kind = "MatchedWinLoss" => KeyOf(sink'[i].info) # k
           /\ IF lastOp'.op = "checkExpiredAuctions" /\ submitted[k].timeout <= now
              THEN /\ k \notin DOMAIN submitted'
                   /\ EntryOf(finished', k) = EntryOf(finished, k)
                   /\ sink' = <<>>
              ELSE IsPlaceholder(submitted', k)

\* C15: every submitted entry without a bid request holds at least one early
\* win or campaign event; no banker call and no MatchedWinLoss comes from it
\* until doAuction supplies the submission; if it expires first it is removed
\* without any banker call or outcome.
C15_PlaceholderInvariant ==
    [](PlaceholdersHoldEvents) /\ [][PlaceholdersInert]_vars

\* a placeholder holding two notifications has just buffered a campaign event
C15_Witness ==
    /\ lastOp.op = "doEvent"
    /\ lastOp.event.type = "CAMPAIGN_EVENT"
    /\ \E k \in DOMAIN submitted :
          /\ IsPlaceholder(submitted, k)
          /\ Len(submitted[k].value.earlyWinEvents) = 2
          /\ Len(submitted[k].value.earlyCampaignEvents) = 1
    /\ banker = <<>>

----------------------------------------------------------------------------
(* The sweeper over several keys *)

\* every response for spot 1, the normal one for spot 2 and for the null spot
SweepSubmissions(t) ==
    { submittedAuctionEvent(a, 1, t + lossTimeout, <<1, 2>>, r) :
        a \in Auctions, r \in Responses }
    \cup
    { submittedAuctionEvent(a, s, t + lossTimeout, <<1, 2>>, NormalResponse) :
        a \in Auctions, s \in {2, NullId} }

\* win/loss notifications in time
SweepEvents(t) ==
    { postAuctionEvent(type, a, s, "", 80, t, t, "meta", Account) :
        type \in {"WIN", "LOSS"}, a \in Auctions, s \in AdSpotIds }

NextSweep ==
    \/ DoAuction(SweepSubmissions(now), MaxSweepEvents)
    \/ DoEvent(SweepEvents(now), MaxSweepEvents)
    \/ CheckExpiredAuctions
    \/ Tick(TickSteps, MaxSweepTicks)

SpecSweep == Init /\ [][NextSweep]_vars

----------------------------------------------------------------------------
(* C16 *)

\* the entries of a table whose expiry is not after the current time
Due(tbl) == {k \in DOMAIN tbl : tbl[k].timeout <= now}

ResolvingOps == {"attachBid", "winBid", "forceWinBid", "cancelBid"}

\* exactly the due entries leave submitted, the others are untouched
SubmittedSwept ==
    /\ DOMAIN submitted' = (DOMAIN submitted) \ Due(submitted)
    /\ \A k \in DOMAIN submitted' : submitted'[k] = submitted[k]

\* the finished entry of k after the sweep if the sweep inserted none
FinishedLeft(k) ==
    IF k \in Due(finished) THEN <<>> ELSE EntryOf(finished, k)

\* the due entry of k became an inferred loss: one cancelBid, one
\* MatchedWinLoss{Loss, Inferred} with price 0, recorded in finished
InferredLoss(k, everyKey) ==
    LET bid == submitted[k].value.bid
        calls == CallsOf(banker', ResolvingOps, k)
        outcomes == OutcomesFor(sink', k)
    IN  /\ Len(calls) = 1
        /\ calls[1].op = "cancelBid"
        /\ calls[1].account = bid.account
        /\ calls[1].bidId = makeBidId(k[1], k[2], bid.agent)
        /\ Len(outcomes) = 1
        /\ outcomes[1].kind = "MatchedWinLoss"
        /\ outcomes[1].type = "Loss"
        /\ outcomes[1].confidence = "Inferred"
        /\ outcomes[1].info.reportedStatus = "LOSS"
        /\ outcomes[1].info.price = 0
        /\ outcomes[1].info.bid = bid
        /\ IF everyKey \/ k \notin DOMAIN finished
           THEN /\ k \in DOMAIN finished'
                /\ finished'[k].value = outcomes[1].info
                /\ finished'[k].timeout = now + auctionTimeout
           ELSE \/ /\ k \in DOMAIN finished'
                   /\ finished'[k].value = outcomes[1].info
                \/ EntryOf(finished', k) = FinishedLeft(k)

\* the due entry of k went with nothing but the given banker calls
DroppedWith(k, ops) ==
    LET calls == CallsOf(banker', ResolvingOps, k)
    IN  /\ Len(calls) = Len(ops)
        /\ \A i \in DOMAIN calls : calls[i].op = ops[i]
        /\ OutcomesFor(sink', k) = <<>>
        /\ EntryOf(finished', k) = FinishedLeft(k)

\* the keys not due in submitted: no banker call, no outcome, and their
\* finished entries go when due and stay unchanged otherwise
FinishedSwept(everyKey) ==
    \A k \in Keys :
        /\ k \notin Due(submitted)
           => /\ CallsOf(banker', ResolvingOps, k) = <<>>
              /\ OutcomesFor(sink', k) = <<>>
              /\ EntryOf(finished', k) = FinishedLeft(k)
        /\ (everyKey /\ k \in Due(finished)) => k \notin DOMAIN finished'

\* one logBidEvents, after everything else
LoggedOnce ==
    /\ Len(SelectSeq(banker', LAMBDA c : c.op = "logBidEvents")) = 1
    /\ banker'[Len(banker')].op = "logBidEvents"

\* C16 (as stated): one sweep removes exactly the due entries of submitted;
\* each one with a bid request becomes an inferred loss, each one without is
\* dropped silently; due finished entries are removed silently; logBidEvents
\* is called once, last.
C16_ExpirySweep ==
    [][lastOp'.op = "checkExpiredAuctions"
       => /\ SubmittedSwept
          /\ \A k \in Due(submitted) :
                IF IsPlaceholder(submitted, k) THEN DroppedWith(k, <<>>)
                ELSE InferredLoss(k, TRUE)
          /\ FinishedSwept(TRUE)
          /\ UNCHANGED now
          /\ LoggedOnce]_vars

\* C16 (amended): as stated for the due entries whose bid has a spot id, an
\* account and is not a no-bid; a due no-bid entry gets its cancelBid and
\* nothing else, a due entry with no spot id or no account gets nothing at
\* all; where the key is in finished as well, the inferred loss either
\* replaces that entry or leaves it to its own expiry.
C16_ExpirySweepOfValidBid ==
    [][lastOp'.op = "checkExpiredAuctions"
       => /\ SubmittedSwept
          /\ \A k \in Due(submitted) :
                LET bid == submitted[k].value.bid
                IN  IF IsPlaceholder(submitted, k) THEN DroppedWith(k, <<>>)
                    ELSE IF k[2] = NullId \/ bid.account = NoAccount
                         THEN DroppedWith(k, <<>>)
                    ELSE IF isNoBid(bid) THEN DroppedWith(k, <<"cancelBid">>)
                    ELSE InferredLoss(k, FALSE)
          /\ FinishedSwept(FALSE)
          /\ UNCHANGED now
          /\ LoggedOnce]_vars

\* a sweep has just turned one due submission into an inferred loss and left
\* a submission that was not due
C16_Witness ==
    /\ lastOp.op = "checkExpiredAuctions"
    /\ Len(banker) = 2
    /\ banker[1].op = "cancelBid"
    /\ banker[2].op = "logBidEvents"
    /\ Len(sink) = 1
    /\ sink[1].type = "Loss"
    /\ sink[1].confidence = "Inferred"
    /\ DOMAIN finished = {KeyOf(sink[1].info)}
    /\ \E k \in DOMAIN submitted : submitted[k].timeout > now

----------------------------------------------------------------------------
(* C17 *)

NoArming == [armed |-> FALSE, status |-> "none", bid |-> NoResponse]

\* whether the step calls doBidResult for key k and reaches line 515, and
\* with which status and bid
ArmedFor(k) ==
    LET e == lastOp'.event
        mine == k[2] # NullId /\ k \in DOMAIN submitted /\ k \notin DOMAIN finished
    IN  IF /\ lastOp'.op = "doEvent"
           /\ e.type \in {"WIN", "LOSS"}
           /\ KeyOf(e) = k
           /\ mine
           /\ ~IsPlaceholder(submitted, k)
           /\ submitted[k].value.bid.account # NoAccount
        THEN [armed |-> TRUE, status |-> e.type, bid |-> submitted[k].value.bid]
        ELSE IF /\ lastOp'.op = "doAuction"
                /\ KeyOf(e) = k
                /\ mine
                /\ submitted[k].value.earlyWinEvents # <<>>
                /\ e.bidResponse.account # NoAccount
        THEN [armed |-> TRUE, status |-> Head(submitted[k].value.earlyWinEvents).type,
              bid |-> e.bidResponse]
        ELSE IF /\ lastOp'.op = "checkExpiredAuctions"
                /\ k[2] # NullId
                /\ k \in Due(submitted)
                /\ ~IsPlaceholder(submitted, k)
                /\ submitted[k].value.bid.account # NoAccount
        THEN [armed |-> TRUE, status |-> "LOSS", bid |-> submitted[k].value.bid]
        ELSE NoArming

\* the price evaluation of a win completes
PriceEvaluated(a) == a.status = "WIN" /\ ~isNoBid(a.bid) /\ a.bid.wcm # "throws"

\* C17: once doBidResult has armed the release, whatever the exit (return or
\* exception), the step makes exactly one of winBid and cancelBid for the bid
\* id: winBid if and only if the status is WIN and the price evaluation
\* completed, cancelBid otherwise; a step that does not arm it makes neither.
C17_ScopedRelease ==
    [][\A k \in Keys :
          LET a == ArmedFor(k)
              calls == CallsOf(banker', {"winBid", "cancelBid"}, k)
          IN  IF a.armed
              THEN /\ Len(calls) = 1
                   /\ calls[1].bidId = makeBidId(k[1], k[2], a.bid.agent)
                   /\ calls[1].account = a.bid.account
                   /\ calls[1].op = IF PriceEvaluated(a) THEN "winBid" ELSE "cancelBid"
              ELSE calls = <<>>]_vars

\* a WIN for a submitted bid has just raised after the release was armed: one
\* cancelBid, no outcome, no finished entry
C17_Witness ==
    /\ lastOp.op = "doEvent"
    /\ lastOp.event.type = "WIN"
    /\ Len(banker) = 1
    /\ banker[1].op = "cancelBid"
    /\ banker[1].key = KeyOf(lastOp.event)
    /\ sink = <<>>
    /\ KeyOf(lastOp.event) \notin DOMAIN finished
    /\ KeyOf(lastOp.event) \notin DOMAIN submitted

----------------------------------------------------------------------------
(* doBidResult on bids that fail its checks or only raise an error *)

\* spot 1 and the null spot; every response for the request holding spot 1,
\* the normal response for a request that lacks it
BidResultSubmissions(t) == SubmittedAuctionEvents(t, {1, NullId})

\* win/loss notifications in time, the win price below and above the bid price
BidResultEvents(t) ==
    { postAuctionEvent(type, a, s, "", p, t, t, "meta", Account) :
        type \in {"WIN", "LOSS"}, a \in Auctions, s \in {1, NullId}, p \in WinPrices }

NextBidResult ==
    \/ DoAuction(BidResultSubmissions(now), MaxBidResultEvents)
    \/ DoEvent(BidResultEvents(now), MaxBidResultEvents)
    \/ CheckExpiredAuctions
    \/ Tick({lossTimeout}, MaxBidResultTicks)

SpecBidResult == Init /\ [][NextBidResult]_vars

----------------------------------------------------------------------------
(* C18 *)

NoBidResult ==
    [called |-> FALSE, status |-> "none", bid |-> NoResponse, bidRequest |-> NullRequest,
     winPrice |-> 0]

\* whether the step calls doBidResult for key k, and with which arguments
BidResultFor(k) ==
    LET e == lastOp'.event
    IN  IF /\ lastOp'.op = "doEvent"
           /\ e.type \in {"WIN", "LOSS"}
           /\ KeyOf(e) = k
           /\ k \in DOMAIN submitted
           /\ k \notin DOMAIN finished
           /\ ~IsPlaceholder(submitted, k)
        THEN [called |-> TRUE, status |-> e.type, bid |-> submitted[k].value.bid,
              bidRequest |-> submitted[k].value.bidRequest, winPrice |-> e.winPrice]
        ELSE IF /\ lastOp'.op = "doAuction"
                /\ KeyOf(e) = k
                /\ k \in DOMAIN submitted
                /\ k \notin DOMAIN finished
                /\ submitted[k].value.earlyWinEvents # <<>>
        THEN [called |-> TRUE, status |-> Head(submitted[k].value.earlyWinEvents).type,
              bid |-> e.bidResponse, bidRequest |-> e.bidRequest,
              winPrice |-> Head(submitted[k].value.earlyWinEvents).winPrice]
        ELSE IF /\ lastOp'.op = "checkExpiredAuctions"
                /\ k \in Due(submitted)
                /\ ~IsPlaceholder(submitted, k)
        THEN [called |-> TRUE, status |-> "LOSS", bid |-> submitted[k].value.bid,
              bidRequest |-> submitted[k].value.bidRequest, winPrice |-> 0]
        ELSE NoBidResult

\* the checks of lines 487, 503 and 520
FailsChecks(k, c) == k[2] = NullId \/ c.bid.account = NoAccount \/ isNoBid(c.bid)

\* the conditions of lines 494 and 508 that only call doError
OnlyAnError(k, c) ==
    \/ findAdSpotIndex(c.bidRequest, k[2]) = -1
    \/ c.winPrice > c.bid.maxPrice

\* the call raised before any outcome: the entry is gone from submitted, no
\* winBid, no MatchedWinLoss, finished as it would be without the call
RaisedBeforeOutcome(k) ==
    /\ k \notin DOMAIN submitted'
    /\ CallsOf(banker', {"winBid", "forceWinBid"}, k) = <<>>
    /\ OutcomesFor(sink', k) = <<>>
    /\ EntryOf(finished', k) =
          IF lastOp'.op = "checkExpiredAuctions" THEN FinishedLeft(k)
          ELSE EntryOf(finished, k)

\* the outcome went to the banker, to the sink and into finished (where a
\* replay in doAuction may go on to overlay a late win)
OutcomeCommitted(k, c) ==
    LET calls == CallsOf(banker', {"winBid", "cancelBid"}, k)
        outcomes == WinLossOutcomes(OutcomesFor(sink', k))
    IN  /\ Len(calls) = 1
        /\ calls[1].op = IF c.status = "WIN" THEN "winBid" ELSE "cancelBid"
        /\ Len(outcomes) >= 1
        /\ outcomes[1].type = IF c.status = "WIN" THEN "Win" ELSE "Loss"
        /\ outcomes[1].info.reportedStatus = c.status
        /\ outcomes[1].info.winPrice = c.winPrice
        /\ outcomes[1].info.spotIndex = findAdSpotIndex(c.bidRequest, k[2])
        /\ outcomes[1].info.bid = c.bid
        /\ k \in DOMAIN finished'
        /\ finished'[k].value.spotIndex = findAdSpotIndex(c.bidRequest, k[2])
        /\ finished'[k].value.bid = c.bid
        /\ lastOp'.op # "doAuction" => finished'[k].value = outcomes[1].info

PreconditionFailures(everyKey) ==
    \A k \in Keys :
        LET c == BidResultFor(k)
        IN  /\ (c.called /\ FailsChecks(k, c)) => RaisedBeforeOutcome(k)
            /\ (/\ c.called
                /\ ~FailsChecks(k, c)
                /\ OnlyAnError(k, c)
                /\ c.status = "WIN" => c.bid.wcm # "throws"
                /\ everyKey \/ k \notin DOMAIN finished)
               => OutcomeCommitted(k, c)

PreconditionFailuresOfNewKey == [][PreconditionFailures(FALSE)]_vars

----------------------------------------------------------------------------
(* One submission, one WIN, and the sweeper *)

\* a bid request and a non-empty account
RaceSubmissions(t) ==
    { submittedAuctionEvent(a, s, t + lossTimeout, <<1, 2>>, r) :
        a \in Auctions, s \in AdSpotIds, r \in {r \in Responses : r.account # NoAccount} }

RaceWins(t, key) ==
    { postAuctionEvent("WIN", key[1], key[2], "", p, t, t, "meta", Account) : p \in WinPrices }

\* alt.held remembers the submission
RaceSubmit ==
    /\ alt.stage = "idle"
    /\ \E event \in RaceSubmissions(now), dup \in Clashes :
          /\ Install(doAuction(Cur, now, event, dup), "doAuction", event)
          /\ alt' = [NoAlt EXCEPT !.stage = "racing", !.held = event]
    /\ nEvents' = 1
    /\ UNCHANGED <<now, nTicks>>

RaceWin ==
    /\ alt.stage = "racing"
    /\ nEvents = 1
    /\ \E event \in RaceWins(now, KeyOf(alt.held)), dup \in Clashes :
          Install(doEvent(Cur, now, event, dup), "doEvent", event)
    /\ nEvents' = 2
    /\ UNCHANGED <<now, nTicks, alt>>

NextRace ==
    \/ RaceSubmit
    \/ RaceWin
    \/ CheckExpiredAuctions
    \/ Tick({5, lossTimeout, auctionTimeout}, MaxRaceTicks)

SpecRace == Init /\ [][NextRace]_vars

----------------------------------------------------------------------------
(* C19 *)

AccountBids == {r \in Responses : r.account # NoAccount}
ValidBids == {r \in Responses : ValidBid(r)}

\* until the WIN arrives the key is in one of the tables, unless the inferred
\* loss has outlived its retention
WinFindsKey(bids) ==
    (/\ alt.stage = "racing"
     /\ nEvents = 1
     /\ alt.held.bidResponse \in bids
     /\ now < alt.held.lossTimeout + auctionTimeout)
    => LET k == KeyOf(alt.held)
       IN  \/ k \in DOMAIN submitted /\ k \notin DOMAIN finished
           \/ /\ k \notin DOMAIN submitted
              /\ k \in DOMAIN finished
              /\ finished[k].value.reportedStatus = "LOSS"

\* the WIN before the sweep that expires the submission: winBid and
\* MatchedWinLoss{Win}; after it: forceWinBid and MatchedWinLoss{LateWin};
\* finished[key] records WIN either way
WinNotLost(bids) ==
    (/\ alt.stage = "racing"
     /\ IsWinLossStep("WIN"))
    => LET k == KeyOf(alt.held)
           calls == CallsOf(banker', {"winBid", "forceWinBid", "cancelBid"}, k)
           outcomes == WinLossOutcomes(sink')
       IN  /\ (k \in DOMAIN submitted /\ alt.held.bidResponse \in bids)
              => /\ Len(calls) = 1
                 /\ calls[1].op = "winBid"
                 /\ Len(outcomes) = 1
                 /\ outcomes[1].type = "Win"
                 /\ FinishedStatus(finished', k) = "WIN"
           /\ k \in DOMAIN finished
              => /\ Len(calls) = 1
                 /\ calls[1].op = "forceWinBid"
                 /\ Len(outcomes) = 1
                 /\ outcomes[1].type = "LateWin"
                 /\ FinishedStatus(finished', k) = "WIN"

\* once the WIN is processed the finished entry says WIN for as long as it is kept
StaysWon(bids) ==
    (/\ alt.stage = "racing"
     /\ nEvents = 2
     /\ alt.held.bidResponse \in bids
     /\ KeyOf(alt.held) \in DOMAIN finished)
    => finished[KeyOf(alt.held)].value.reportedStatus = "WIN"

----------------------------------------------------------------------------
(* The banker's call trace *)

\* one key, every response and the normal one of a second agent
TraceSubmissions(t) ==
    { submittedAuctionEvent(a, 1, t + lossTimeout, <<1, 2>>, r) :
        a \in Auctions, r \in Responses \cup {[NormalResponse EXCEPT !.agent = "agent2"]} }

TraceEvents(t) ==
    { postAuctionEvent(type, a, 1, "", 80, t, t, "meta", Account) :
        type \in {"WIN", "LOSS"}, a \in Auctions }

\* alt.held: the (account, bid id) pairs attachBid has been called with
Attached == IF alt.stage = "tracing" THEN alt.held ELSE {}

AttachedBy(calls) ==
    { <<calls[i].account, calls[i].bidId>> : i \in {j \in DOMAIN calls : calls[j].op = "attachBid"} }

Trace(M) ==
    alt' = [NoAlt EXCEPT !.stage = "tracing", !.held = Attached \cup AttachedBy(M.banker)]

TraceDoAuction ==
    /\ nEvents < MaxTraceEvents
    /\ \E event \in TraceSubmissions(now), dup \in Clashes :
          LET M == doAuction(Cur, now, event, dup)
          IN  Install(M, "doAuction", event) /\ Trace(M)
    /\ nEvents' = nEvents + 1
    /\ UNCHANGED <<now, nTicks>>

TraceDoEvent ==
    /\ nEvents < MaxTraceEvents
    /\ \E event \in TraceEvents(now), dup \in Clashes :
          LET M == doEvent(Cur, now, event, dup)
          IN  Install(M, "doEvent", event) /\ Trace(M)
    /\ nEvents' = nEvents + 1
    /\ UNCHANGED <<now, nTicks>>

TraceSweep ==
    /\ \E dup \in Clashes :
          LET M == checkExpiredAuctions(Cur, now, dup)
          IN  Install(M, "checkExpiredAuctions", NoEvent) /\ Trace(M)
    /\ UNCHANGED <<now, nEvents, nTicks>>

NextTrace ==
    \/ TraceDoAuction
    \/ TraceDoEvent
    \/ TraceSweep
    \/ Tick({lossTimeout}, MaxTraceTicks)

SpecTrace == Init /\ [][NextTrace]_vars

----------------------------------------------------------------------------
(* C20 *)

\* C20: every winBid and every cancelBid on the banker's call trace comes
\* after an attachBid with the same account and bid id, earlier in the same
\* call (the replay inside doAuction) or in an earlier one.
C20_ReservationPrecedesResolution ==
    [][\A i \in DOMAIN banker' :
          banker'[i].op \in {"winBid", "cancelBid"}
          => \/ <<banker'[i].account, banker'[i].bidId>> \in Attached
             \/ \E j \in 1..(i - 1) :
                   /\ banker'[j].op = "attachBid"
                   /\ banker'[j].account = banker'[i].account
                   /\ banker'[j].bidId = banker'[i].bidId]_vars

\* doAuction for the second agent has just replayed an early win: attachBid,
\* then winBid for the same bid id
C20_Witness ==
    /\ lastOp.op = "doAuction"
    /\ lastOp.event.bidResponse.agent = "agent2"
    /\ Len(banker) = 2
    /\ banker[1].op = "attachBid"
    /\ banker[2].op = "winBid"
    /\ banker[2].bidId = banker[1].bidId
    /\ banker[2].bidId = makeBidId("A1", 1, "agent2")

----------------------------------------------------------------------------
(* C21 *)

\* the step processes a WIN: doEvent on one, or doAuction replaying one that
\* the placeholder of the key had buffered
ProcessesWin ==
    \/ IsWinLossStep("WIN")
    \/ /\ lastOp'.op = "doAuction"
       /\ KeyOf(lastOp'.event) \in DOMAIN submitted
       /\ \E i \in DOMAIN submitted[KeyOf(lastOp'.event)].value.earlyWinEvents :
             submitted[KeyOf(lastOp'.event)].value.earlyWinEvents[i].type = "WIN"

\* a LOSS naming an account for a key in neither table, its bid at least
\* lossTimeout old
OrphanLateLoss ==
    /\ IsWinLossStep("LOSS")
    /\ KeyOf(lastOp'.event) \notin DOMAIN submitted
    /\ KeyOf(lastOp'.event) \notin DOMAIN finished
    /\ lastOp'.event.account # NoAccount
    /\ getTimeGapMs(now, lastOp'.event.bidTimestamp) >= lossTimeout * 1000

ForceCommits == SelectSeq(banker', LAMBDA c : c.op = "forceWinBid")

\* C21: forceWinBid is called only while a WIN is processed; no LOSS event,
\* campaign event, submission or sweep causes it, not even a LOSS for an
\* unknown key arriving lossTimeout or more after its bidTimestamp with a
\* non-empty account.
C21_ForceCommitOnlyByWin ==
    [][ForceCommits # <<>> => ProcessesWin]_vars

\* the only other step that force-commits is the orphan late LOSS
ForceCommitByWinOrOrphanLoss ==
    [][ForceCommits # <<>> => (ProcessesWin \/ OrphanLateLoss)]_vars

====
